---- MODULE Spec2Model ----
(***************************************************************************)
(* Offline-first ad cache of ads-sdk (src/src/services/adsService.ts).     *)
(*                                                                         *)
(* The model follows the async functions of the service step by step: one  *)
(* action per stretch of code between two awaits.  The key-value store and *)
(* the remote source are the environment: every store operation may throw  *)
(* and every fetch may fail (non-2xx, transport error, malformed body).    *)
(***************************************************************************)
EXTENDS Integers, Sequences, FiniteSets, Bags, TLC

(***************************************************************************)
(* Bounds of the model.                                                    *)
(***************************************************************************)
MaxBg == 1           \* background refreshes in flight at once
MaxTicks == 1        \* clock advances in one behaviour

(***************************************************************************)
(* Optional values: null/undefined is None, a present value v is Some(v).  *)
(***************************************************************************)
None == << >>
Some(v) == << v >>
IsSome(o) == o # None
TheValue(o) == o[1]

(***************************************************************************)
(* Module-level constants and defaults.                                    *)
(***************************************************************************)
CACHE_KEY == "dj_ads_cache"
CACHE_TIMESTAMP_KEY == "dj_ads_cache_timestamp"
Keys == {CACHE_KEY, CACHE_TIMESTAMP_KEY}
DefaultCacheDuration == 1000 * 60 * 60
DefaultApiUrl == << "https://davidjgrimsley.com", "/api/content" >>
DefaultIntakeBaseUrl == << "https://davidjgrimsley.com" >>

(***************************************************************************)
(* Lookup tables of the transformer.  A Record<string, string> lookup of a *)
(* missing key is undefined, here None.                                    *)
(***************************************************************************)
iconMap(id) ==
    CASE id = "app-development" -> Some("phone-portrait-outline")
      [] id = "website-building" -> Some("globe-outline")
      [] id = "game-development" -> Some("game-controller-outline")
      [] id = "tutoring" -> Some("school-outline")
      [] id = "online-presence" -> Some("trending-up-outline")
      [] OTHER -> None

colorMap(accent) ==
    CASE accent = "#0E668B" -> Some("blue")
      [] accent = "#1E9E70" -> Some("green")
      [] accent = "#723B80" -> Some("purple")
      [] accent = "#EEA444" -> Some("orange")
      [] accent = "#D63C83" -> Some("pink")
      [] OTHER -> None

\* a || b on an optional string: a when a is present and non-empty
OrElse(o, dflt) == IF IsSome(o) /\ TheValue(o) # "" THEN TheValue(o) ELSE dflt

(***************************************************************************)
(* The static fallback list.  The template literals are evaluated once,    *)
(* when the module is loaded, i.e. with the default intake base URL.       *)
(***************************************************************************)
fallbackAds ==
    << [id |-> "creative-strategy",
        title |-> "Creative Strategy Sprint",
        tagline |-> "Clarify your direction and ship faster.",
        description |-> "A focused 1:1 sprint to align your creative goals, audience, and execution plan. Perfect for creators launching a new project or pivoting into a new niche.",
        features |-> << "Roadmap for your next 90 days",
                        "Positioning & audience alignment",
                        "Content and distribution checklist" >>,
        ctaText |-> "Book a Strategy Sprint",
        ctaUrl |-> DefaultIntakeBaseUrl \o << "/creative-strategy" >>,
        icon |-> "sparkles",
        accentColor |-> "purple"],
       [id |-> "portfolio-review",
        title |-> "Portfolio Review",
        tagline |-> "Make your work stand out with clarity.",
        description |-> "Get targeted, practical feedback on your portfolio, project pages, and case studies. Walk away with fixes you can implement immediately.",
        features |-> << "Portfolio positioning feedback",
                        "Case study structure & flow",
                        "Actionable next steps" >>,
        ctaText |-> "Schedule a Review",
        ctaUrl |-> DefaultIntakeBaseUrl \o << "/portfolio-review" >>,
        icon |-> "layers",
        accentColor |-> "blue"],
       [id |-> "brand-identity",
        title |-> "Brand Identity Boost",
        tagline |-> "A cohesive look that feels premium.",
        description |-> "Refresh your visuals and message with a lightweight brand identity package tailored to creative teams and indie studios.",
        features |-> << "Palette + typography direction",
                        "Moodboard and brand voice",
                        "Quick-start asset kit" >>,
        ctaText |-> "Explore Branding",
        ctaUrl |-> DefaultIntakeBaseUrl \o << "/brand-identity" >>,
        icon |-> "color-palette",
        accentColor |-> "orange"],
       [id |-> "launch-support",
        title |-> "Launch Support",
        tagline |-> "Build hype and land your first fans.",
        description |-> "From pre-launch planning to post-launch momentum, get a proven playbook and hands-on support for your next release.",
        features |-> << "Launch checklist & timeline",
                        "Landing page feedback",
                        "Post-launch growth plan" >>,
        ctaText |-> "Plan a Launch",
        ctaUrl |-> DefaultIntakeBaseUrl \o << "/launch-support" >>,
        icon |-> "rocket",
        accentColor |-> "green"] >>

(***************************************************************************)
(* Remote service records (APIServiceConfig) the remote source may send,   *)
(* and the bodies it may answer with.  features is optional on the wire.   *)
(***************************************************************************)
ServiceApp ==
    [id |-> "app-development", title |-> "App Development",
     tagline |-> "Ship your app", description |-> "Apps for iOS and Android",
     features |-> Some(<< "Design", "Build" >>),
     primaryCtaLabel |-> "Start an app", primaryCtaId |-> "app-cta",
     intakeUrl |-> << "/intake/app" >>, accent |-> "#1E9E70"]

ServiceOther ==
    [id |-> "podcast-editing", title |-> "Podcast Editing",
     tagline |-> "Sound better", description |-> "Editing for podcasts",
     features |-> None,
     primaryCtaLabel |-> "Book editing", primaryCtaId |-> "pod-cta",
     intakeUrl |-> << "/intake/podcast" >>, accent |-> "#123456"]

ServiceLists == { << >>, << ServiceApp >>, << ServiceOther, ServiceApp >> }

\* what one fetch can end in: a 2xx body with or without services, a non-2xx
\* status, a transport error (fetch rejects), a malformed body (json() rejects)
Responses ==
    { [kind |-> "ok", services |-> Some(l)] : l \in ServiceLists }
    \cup { [kind |-> k, services |-> None] : k \in {"ok", "http", "transport", "parse"} }

(***************************************************************************)
(* Serialisation.  A string is a sequence of tokens.  JSON text is the     *)
(* bracketed sequence of the objects; a decimal number is its digits.      *)
(***************************************************************************)
Tok(k, v) == [k |-> k, v |-> v]

RECURSIVE JSONitems(_)
JSONitems(ads) ==
    IF ads = << >> THEN << >>
    ELSE << Tok("obj", Some(Head(ads))) >> \o JSONitems(Tail(ads))

JSONstringify(ads) == << Tok("[", None) >> \o JSONitems(ads) \o << Tok("]", None) >>

JSONwellFormed(str) ==
    /\ Len(str) >= 2
    /\ str[1] = Tok("[", None)
    /\ str[Len(str)] = Tok("]", None)
    /\ \A i \in 2..(Len(str) - 1) : str[i].k = "obj" /\ IsSome(str[i].v)

\* JSON.parse: None stands for the SyntaxError it throws
JSONparse(str) ==
    IF JSONwellFormed(str)
    THEN Some([i \in 1..(Len(str) - 2) |-> TheValue(str[i + 1].v)])
    ELSE None

RECURSIVE toString(_)
toString(n) == IF n < 10 THEN << n >> ELSE toString(n \div 10) \o << n % 10 >>

RECURSIVE parseInt(_)
parseInt(str) ==
    IF Len(str) = 1 THEN str[1]
    ELSE 10 * parseInt(SubSeq(str, 1, Len(str) - 1)) + str[Len(str)]


(***************************************************************************)
(* State.                                                                  *)
(***************************************************************************)
VARIABLES
    now,              \* Date.now()
    API_URL,          \* module-level configuration
    INTAKE_BASE_URL,
    CACHE_DURATION,
    store,            \* the key-value store: key -> optional string
    pc,               \* per caller: where its current call stands
    op,               \* per caller: the public function it called last
    cachedAds,        \* per caller: the local cachedAds of getAllAds
    freshAds,         \* per caller: the local freshAds
    result,           \* per caller: settlement of the promise it was given
    bg,               \* bag of the detached chains started on the Stale path
    storedAds,        \* the list last written under CACHE_KEY, None once removed
    storedAt,         \* the time last written under CACHE_TIMESTAMP_KEY
    storedBy,         \* whose completed persist the store holds, if known
    resp,             \* per caller: the response its awaited fetch received
    nfetch,           \* per caller: fetches the current call has issued
    nwrites,          \* per caller: setItem calls the current call has made
    path,             \* per caller: branch getAllAds took
    rfault,           \* per caller: the read of a stored payload threw
    tfault,           \* per caller: the read of a stored timestamp threw
    wfault,           \* per caller: a store write or removal of the call threw
    seen,             \* per caller: storedAds when the call read the payload
    seenBy,           \* per caller: storedBy while the call read the store
    ttl,              \* per caller: the stored time against now at the read
    bgEnded,          \* how the detached chain that ended last ended
    fetchUrl,         \* per caller: the URL the current call fetched, if any
    removals,         \* per caller: outcome of each removeItem call, in order
    outer,            \* per caller: the function that called getAllAds for it
    answer            \* per caller: settlement of that function's promise

config == << API_URL, INTAKE_BASE_URL, CACHE_DURATION >>
locals == << pc, op, cachedAds, freshAds, result >>
kept == << store, storedAds, storedAt, storedBy >>
observed == << resp, nfetch, nwrites, path, rfault, tfault, wfault, seen, seenBy, ttl,
              fetchUrl, removals >>
wrapped == << outer, answer >>
vars == << now, config, locals, bg, bgEnded, kept, observed, wrapped >>

Callers == DOMAIN pc

(***************************************************************************)
(* Transformation and fetching.                                            *)
(***************************************************************************)
\* variant: the intake path taken for the whole link
transformService_barePath(service, intakeBaseUrl) ==
    [id |-> service.id,
     title |-> service.title,
     tagline |-> service.tagline,
     description |-> service.description,
     ctaText |-> service.primaryCtaLabel,
     ctaUrl |-> service.intakeUrl,
     icon |-> OrElse(iconMap(service.id), "information-circle-outline"),
     accentColor |-> OrElse(colorMap(service.accent), "blue"),
     features |-> IF IsSome(service.features) THEN TheValue(service.features) ELSE << >>]

transformService(service, intakeBaseUrl) ==
    [id |-> service.id,
     title |-> service.title,
     tagline |-> service.tagline,
     description |-> service.description,
     ctaText |-> service.primaryCtaLabel,
     ctaUrl |-> intakeBaseUrl \o service.intakeUrl,
     icon |-> OrElse(iconMap(service.id), "information-circle-outline"),
     accentColor |-> OrElse(colorMap(service.accent), "blue"),
     features |-> IF IsSome(service.features) THEN TheValue(service.features) ELSE << >>]

\* how fetchAdsFromAPI settles on response r: ok with the mapped list, or
\* rejected with the error of the failing step
fetchAdsFromAPI(r, intakeBaseUrl) ==
    IF r.kind = "ok"
    THEN LET services == IF IsSome(r.services) THEN TheValue(r.services) ELSE << >>
         IN [ok |-> TRUE,
             ads |-> [i \in 1..Len(services) |-> transformService(services[i], intakeBaseUrl)],
             err |-> ""]
    ELSE [ok |-> FALSE, ads |-> << >>, err |-> r.kind]

(***************************************************************************)
(* Cache management, as functions of what the store hands back.            *)
(* An item is None when the key is missing; thrown is TRUE when the store  *)
(* operation rejected.                                                     *)
(***************************************************************************)
\* !x of a string-or-null: null and the empty string are falsy
Falsy(o) == ~IsSome(o) \/ TheValue(o) = << >>

\* variant: an empty array taken for "nothing cached"
getCachedAds_emptyIsNull(item, thrown) ==
    IF thrown THEN None
    ELSE IF Falsy(item) THEN None
    ELSE IF JSONparse(TheValue(item)) = Some(<< >>) THEN None
    ELSE JSONparse(TheValue(item))

getCachedAds(item, thrown) ==
    IF thrown THEN None
    ELSE IF Falsy(item) THEN None
    ELSE JSONparse(TheValue(item))

\* variant: an entry without a usable timestamp taken for unexpired
isCacheExpired_unknownIsFresh(item, thrown, time, duration) ==
    IF thrown THEN FALSE
    ELSE IF Falsy(item) THEN FALSE
    ELSE (time - parseInt(TheValue(item))) > duration

\* variant: the boundary age counted as expired
isCacheExpired_atBoundary(item, thrown, time, duration) ==
    IF thrown THEN TRUE
    ELSE IF Falsy(item) THEN TRUE
    ELSE (time - parseInt(TheValue(item))) >= duration

isCacheExpired(item, thrown, time, duration) ==
    IF thrown THEN TRUE
    ELSE IF Falsy(item) THEN TRUE
    ELSE (time - parseInt(TheValue(item))) > duration

(***************************************************************************)
(* Promise settlements.                                                    *)
(***************************************************************************)
Pending == [status |-> "pending", value |-> << >>, err |-> ""]
Resolved(v) == [status |-> "resolved", value |-> v, err |-> ""]
Rejected(e) == [status |-> "rejected", value |-> << >>, err |-> e]

(***************************************************************************)
(* The store and what is known of it.  storedAds and storedAt follow the   *)
(* two keys.  storedBy names the persist that wrote both of them, from its *)
(* completion until the store changes again; a getAllAds that failed over  *)
(* an empty payload key is remembered the same way, and so are the store   *)
(* of the first run and the store a completed clearAdsCache has emptied.   *)
(***************************************************************************)
\* a change of the store: callers between their two reads can no longer
\* rely on what they saw
Disturb(self) ==
    seenBy' = [c \in Callers |->
                 IF c # self /\ pc[c] = "isCacheExpired" THEN "none" ELSE seenBy[c]]

\* variant: a payload is written only where none is stored
storage_setPayload_ifAbsent(self, ads) ==
    IF IsSome(store[CACHE_KEY])
    THEN UNCHANGED << store, storedAds, storedAt, storedBy, seenBy >>
    ELSE /\ store' = [store EXCEPT ![CACHE_KEY] = Some(JSONstringify(ads))]
         /\ storedAds' = Some(ads)
         /\ storedBy' = "none"
         /\ Disturb(self)
         /\ UNCHANGED storedAt

storage_setPayload(self, ads) ==
    /\ store' = [store EXCEPT ![CACHE_KEY] = Some(JSONstringify(ads))]
    /\ storedAds' = Some(ads)
    /\ storedBy' = "none"
    /\ Disturb(self)
    /\ UNCHANGED storedAt

storage_setTimestamp(self, who, ads) ==
    /\ store' = [store EXCEPT ![CACHE_TIMESTAMP_KEY] = Some(toString(now))]
    /\ storedAt' = Some(now)
    /\ storedBy' = IF storedAds = Some(ads) THEN who ELSE "none"
    /\ Disturb(self)
    /\ UNCHANGED storedAds

\* variant: only the timestamp is dropped, the payload is left to go stale
removeItem_onlyTimestamp(items, key) ==
    IF key = CACHE_TIMESTAMP_KEY THEN [items EXCEPT ![key] = None] ELSE items

\* variant: a removal that leaves the item in place
removeItem_keeps(items, key) == items

\* localStorage.removeItem / AsyncStorage.removeItem
removeItem(items, key) == [items EXCEPT ![key] = None]

\* the removal of the timestamp key is the last step of clearAdsCache: when
\* the payload key is gone as well, the store is known to be cleared
storage_removeItem(self, key) ==
    /\ store' = removeItem(store, key)
    /\ IF key = CACHE_KEY
       THEN storedAds' = None /\ UNCHANGED storedAt
       ELSE storedAt' = None /\ UNCHANGED storedAds
    /\ storedBy' = IF key = CACHE_TIMESTAMP_KEY /\ ~IsSome(storedAds)
                   THEN "clearAdsCache" ELSE "none"
    /\ Disturb(self)

\* the cache states of the design, decided on the times themselves
Age(at, time, duration) ==
    IF ~IsSome(at) THEN "none"
    ELSE IF time - TheValue(at) <= duration THEN "fresh" ELSE "expired"

TickCount(t) == t \div DefaultCacheDuration

\* a direct call of getAllAds, refreshAds or clearAdsCache has no outer function
NoOuter == [fn |-> "none", id |-> ""]

InitConfig ==
    /\ API_URL = DefaultApiUrl
    /\ INTAKE_BASE_URL = DefaultIntakeBaseUrl
    /\ CACHE_DURATION = DefaultCacheDuration

InitCallers(cs) ==
    /\ pc = [c \in cs |-> "idle"]
    /\ op = [c \in cs |-> "none"]
    /\ cachedAds = [c \in cs |-> None]
    /\ freshAds = [c \in cs |-> << >>]
    /\ result = [c \in cs |-> Pending]
    /\ resp = [c \in cs |-> None]
    /\ nfetch = [c \in cs |-> 0]
    /\ nwrites = [c \in cs |-> 0]
    /\ path = [c \in cs |-> "none"]
    /\ rfault = [c \in cs |-> FALSE]
    /\ tfault = [c \in cs |-> FALSE]
    /\ wfault = [c \in cs |-> FALSE]
    /\ seen = [c \in cs |-> None]
    /\ seenBy = [c \in cs |-> "none"]
    /\ ttl = [c \in cs |-> "none"]
    /\ fetchUrl = [c \in cs |-> None]
    /\ removals = [c \in cs |-> << >>]
    /\ outer = [c \in cs |-> NoOuter]
    /\ answer = [c \in cs |-> Pending]

\* the first run of the application: nothing stored, nothing in flight
InitStore ==
    /\ store = [k \in Keys |-> None]
    /\ storedAds = None
    /\ storedAt = None
    /\ storedBy = "firstRun"
    /\ bg = EmptyBag
    /\ bgEnded = "none"

Init ==
    /\ now = 0
    /\ InitConfig
    /\ InitStore
    /\ InitCallers({1})

\* a caller awaits the promise it was given before it calls again
CanCall(c) ==
    /\ pc[c] \in {"idle", "done"}
    /\ outer[c].fn = "none" \/ answer[c].status # "pending"

NoWrapper(c) ==
    /\ outer' = [outer EXCEPT ![c] = NoOuter]
    /\ answer' = [answer EXCEPT ![c] = Pending]

\* a new call starts with fresh locals
StartCall(c, o) ==
    /\ op' = [op EXCEPT ![c] = o]
    /\ freshAds' = [freshAds EXCEPT ![c] = << >>]
    /\ resp' = [resp EXCEPT ![c] = None]
    /\ nwrites' = [nwrites EXCEPT ![c] = 0]
    /\ path' = [path EXCEPT ![c] = "none"]
    /\ tfault' = [tfault EXCEPT ![c] = FALSE]
    /\ ttl' = [ttl EXCEPT ![c] = "none"]
    /\ bgEnded' = "none"

\* time passes: by exactly the default time-to-live, or by a millisecond more
Tick ==
    /\ TickCount(now) < MaxTicks
    /\ \E d \in {DefaultCacheDuration, DefaultCacheDuration + 1} : now' = now + d
    /\ UNCHANGED << config, locals, bg, bgEnded, kept, observed, wrapped >>

(***************************************************************************)
(* getAllAds                                                               *)
(***************************************************************************)
\* the call, up to the await of storage.getItem(CACHE_KEY) in getCachedAds
getAllAds_getCachedAds(c) ==
    /\ CanCall(c)
    /\ StartCall(c, "getAllAds")
    /\ pc' = [pc EXCEPT ![c] = "isCacheExpired"]
    /\ result' = [result EXCEPT ![c] = Pending]
    /\ wfault' = [wfault EXCEPT ![c] = FALSE]
    /\ \E thrown \in BOOLEAN :
         /\ cachedAds' = [cachedAds EXCEPT ![c] = getCachedAds(store[CACHE_KEY], thrown)]
         /\ rfault' = [rfault EXCEPT ![c] = thrown /\ IsSome(store[CACHE_KEY])]
    /\ nfetch' = [nfetch EXCEPT ![c] = 0]
    /\ seen' = [seen EXCEPT ![c] = storedAds]
    /\ seenBy' = [seenBy EXCEPT ![c] = storedBy]
    /\ fetchUrl' = [fetchUrl EXCEPT ![c] = None]
    /\ removals' = [removals EXCEPT ![c] = << >>]
    /\ UNCHANGED << now, config, bg, kept >>

\* a direct call of getAllAds
getAllAds(c) == getAllAds_getCachedAds(c) /\ NoWrapper(c)

\* variant: no refresh is started while one is in flight
startBackgroundRefresh_deduplicated ==
    bg' = IF bg = EmptyBag THEN SetToBag({[pc |-> "fetch", ads |-> << >>]}) ELSE bg

\* variant: the stale list served without starting a refresh
startBackgroundRefresh_never == bg' = bg

\* fetchAdsFromAPI().then(setCachedAds).catch(...): a detached chain starts
\* with its fetch in flight
startBackgroundRefresh == bg' = bg (+) SetToBag({[pc |-> "fetch", ads |-> << >>]})

\* the chains the model lets be in flight at once: MaxBg, and one more for
\* every further caller
MaxInFlight == MaxBg + Cardinality(Callers) - 1

\* variant: a stale list not served before the refresh has been awaited
getAllAds_branch_awaitStale(cached, cacheExpired) ==
    IF IsSome(cached) /\ ~cacheExpired THEN "fresh" ELSE "absent"

\* if (cachedAds && !cacheExpired) ... if (cachedAds && cacheExpired) ...,
\* else the try block that awaits the fetch
getAllAds_branch(cached, cacheExpired) ==
    IF IsSome(cached) /\ ~cacheExpired THEN "fresh"
    ELSE IF IsSome(cached) /\ cacheExpired THEN "stale"
    ELSE "absent"

\* isCacheExpired and the branch taken on its answer, up to the return or
\* the await of the fetch
getAllAds_isCacheExpired(c) ==
    /\ pc[c] = "isCacheExpired"
    /\ \E thrown \in BOOLEAN :
         LET cacheExpired == isCacheExpired(store[CACHE_TIMESTAMP_KEY], thrown, now, CACHE_DURATION)
             branch == getAllAds_branch(cachedAds[c], cacheExpired)
         IN /\ tfault' = [tfault EXCEPT ![c] = thrown /\ IsSome(store[CACHE_TIMESTAMP_KEY])]
            /\ path' = [path EXCEPT ![c] = branch]
            /\ IF branch = "fresh"
               THEN /\ result' = [result EXCEPT ![c] = Resolved(TheValue(cachedAds[c]))]
                    /\ pc' = [pc EXCEPT ![c] = "done"]
                    /\ UNCHANGED << bg, nfetch, fetchUrl >>
               ELSE IF branch = "stale"
               THEN /\ BagCardinality(bg) < MaxInFlight
                    /\ startBackgroundRefresh
                    /\ nfetch' = [nfetch EXCEPT ![c] = nfetch[c] + 1]
                    /\ fetchUrl' = [fetchUrl EXCEPT ![c] = Some(API_URL)]
                    /\ result' = [result EXCEPT ![c] = Resolved(TheValue(cachedAds[c]))]
                    /\ pc' = [pc EXCEPT ![c] = "done"]
               ELSE /\ nfetch' = [nfetch EXCEPT ![c] = nfetch[c] + 1]
                    /\ fetchUrl' = [fetchUrl EXCEPT ![c] = Some(API_URL)]
                    /\ pc' = [pc EXCEPT ![c] = "fetch"]
                    /\ UNCHANGED << bg, result >>
    /\ ttl' = [ttl EXCEPT ![c] = Age(storedAt, now, CACHE_DURATION)]
    /\ UNCHANGED << now, config, kept, op, cachedAds, freshAds, resp, nwrites,
                    rfault, wfault, seen, seenBy, bgEnded, removals, wrapped >>

\* variant: the catch block rethrows
getAllAds_catch_rethrow(error) == Rejected(error)

\* variant: the catch block hands back an empty list
getAllAds_catch_empty(error) == Resolved(<< >>)

\* getAllAds, catch block of the Absent path: the error is logged
getAllAds_catch(error) == Resolved(fallbackAds)

\* variant: the failure masked by the fallback list
refreshAds_throw_masked(error) == Resolved(fallbackAds)

\* refreshAds has no try: a rejected fetch rejects the call
refreshAds_throw(error) == Rejected(error)

\* variant: the fallback list returned whatever was fetched
getAllAds_return_fallback(fresh) == fallbackAds

\* return freshAds.length ? freshAds : fallbackAds
getAllAds_return(fresh) == IF Len(fresh) # 0 THEN fresh ELSE fallbackAds

\* variant: an empty list replaced by the fallback list, as getAllAds does
refreshAds_return_orFallback(fresh) == IF Len(fresh) # 0 THEN fresh ELSE fallbackAds

\* return freshAds
refreshAds_return(fresh) == fresh

\* variant: no catch block, the storage error reaches the caller
setCachedAds_catch_missing(value) == Rejected("storage")

\* setCachedAds, catch block: the error is logged and the awaiting caller
\* goes on to its return
setCachedAds_catch(value) == Resolved(value)

\* the value a call returns once setCachedAds has settled
Returned(c) ==
    IF op[c] = "getAllAds" THEN getAllAds_return(freshAds[c])
    ELSE refreshAds_return(freshAds[c])

\* the awaited fetch of caller c settles on response r
fetchSettles(c, r) ==
    LET f == fetchAdsFromAPI(r, INTAKE_BASE_URL)
    IN /\ resp' = [resp EXCEPT ![c] = Some(r)]
       /\ IF f.ok
          THEN /\ freshAds' = [freshAds EXCEPT ![c] = f.ads]
               /\ pc' = [pc EXCEPT ![c] = "setPayload"]
               /\ UNCHANGED << result, storedBy >>
          ELSE /\ pc' = [pc EXCEPT ![c] = "done"]
               /\ result' = [result EXCEPT ![c] =
                    IF op[c] = "getAllAds" THEN getAllAds_catch(f.err)
                    ELSE refreshAds_throw(f.err)]
               /\ storedBy' = IF op[c] = "getAllAds" /\ ~IsSome(storedAds)
                              THEN "getAllAdsFailed" ELSE storedBy
               /\ UNCHANGED freshAds
       /\ UNCHANGED << now, config, store, storedAds, storedAt, op, cachedAds, bg, bgEnded,
                       nfetch, nwrites, path, rfault, tfault, wfault, seen, seenBy, ttl,
                       fetchUrl, removals, wrapped >>

\* the awaited fetch of getAllAds (Absent path) or refreshAds settles
awaitFetch(c) ==
    /\ pc[c] = "fetch"
    /\ \E r \in Responses : fetchSettles(c, r)

\* the same, on the response that is on its way to the caller
awaitFetch_onTheWire(c) ==
    /\ pc[c] = "fetch"
    /\ IsSome(resp[c])
    /\ fetchSettles(c, TheValue(resp[c]))

\* variant: each write in a try block of its own
setCachedAds_try_each(thrown) == "setTimestamp"

\* both writes share one try block: a throw of the first skips the second
setCachedAds_try(thrown) == IF thrown THEN "done" ELSE "setTimestamp"

\* setCachedAds: storage.setItem(CACHE_KEY, JSON.stringify(ads)); a throw is
\* caught and logged, and the timestamp write is skipped
setCachedAds_payload(c) ==
    /\ pc[c] = "setPayload"
    /\ nwrites' = [nwrites EXCEPT ![c] = nwrites[c] + 1]
    /\ \E thrown \in BOOLEAN :
         IF thrown
         THEN /\ wfault' = [wfault EXCEPT ![c] = TRUE]
              /\ pc' = [pc EXCEPT ![c] = setCachedAds_try(thrown)]
              /\ result' = [result EXCEPT ![c] =
                    IF setCachedAds_try(thrown) = "done"
                    THEN setCachedAds_catch(Returned(c)) ELSE result[c]]
              /\ UNCHANGED << kept, seenBy >>
         ELSE /\ storage_setPayload(c, freshAds[c])
              /\ pc' = [pc EXCEPT ![c] = "setTimestamp"]
              /\ UNCHANGED << wfault, result >>
    /\ UNCHANGED << now, config, op, cachedAds, freshAds, bg, bgEnded, resp, nfetch, path,
                    rfault, tfault, seen, ttl, fetchUrl, removals, wrapped >>

\* setCachedAds: storage.setItem(CACHE_TIMESTAMP_KEY, Date.now().toString())
setCachedAds_timestamp(c) ==
    /\ pc[c] = "setTimestamp"
    /\ nwrites' = [nwrites EXCEPT ![c] = nwrites[c] + 1]
    /\ pc' = [pc EXCEPT ![c] = "done"]
    /\ \E thrown \in BOOLEAN :
         IF thrown
         THEN /\ wfault' = [wfault EXCEPT ![c] = TRUE]
              /\ result' = [result EXCEPT ![c] = setCachedAds_catch(Returned(c))]
              /\ UNCHANGED << kept, seenBy >>
         ELSE /\ storage_setTimestamp(c, op[c], freshAds[c])
              /\ result' = [result EXCEPT ![c] = Resolved(Returned(c))]
              /\ UNCHANGED wfault
    /\ UNCHANGED << now, config, op, cachedAds, freshAds, bg, bgEnded, resp, nfetch, path,
                    rfault, tfault, seen, ttl, fetchUrl, removals, wrapped >>

(***************************************************************************)
(* refreshAds: the fetch is issued by the call itself.                     *)
(***************************************************************************)
refreshAds(c) ==
    /\ CanCall(c)
    /\ StartCall(c, "refreshAds")
    /\ pc' = [pc EXCEPT ![c] = "fetch"]
    /\ result' = [result EXCEPT ![c] = Pending]
    /\ wfault' = [wfault EXCEPT ![c] = FALSE]
    /\ cachedAds' = [cachedAds EXCEPT ![c] = None]
    /\ rfault' = [rfault EXCEPT ![c] = FALSE]
    /\ nfetch' = [nfetch EXCEPT ![c] = 1]
    /\ fetchUrl' = [fetchUrl EXCEPT ![c] = Some(API_URL)]
    /\ removals' = [removals EXCEPT ![c] = << >>]
    /\ seen' = [seen EXCEPT ![c] = None]
    /\ seenBy' = [seenBy EXCEPT ![c] = "none"]
    /\ NoWrapper(c)
    /\ UNCHANGED << now, config, bg, kept >>

(***************************************************************************)
(* clearAdsCache: two removals in sequence; a removal that throws rejects  *)
(* the call.                                                               *)
(***************************************************************************)
\* variant: clearing cancels the refreshes that are in flight
clearAdsCache_inFlight_cancelled(chains) == EmptyBag

\* clearAdsCache does nothing but remove the two keys: the detached chains
\* that are in flight stay in flight
clearAdsCache_inFlight(chains) == chains

\* the call and await storage.removeItem(CACHE_KEY); seenBy keeps what was
\* known of the store when the call was made
clearAdsCache(c) ==
    /\ CanCall(c)
    /\ StartCall(c, "clearAdsCache")
    /\ cachedAds' = [cachedAds EXCEPT ![c] = None]
    /\ rfault' = [rfault EXCEPT ![c] = FALSE]
    /\ nfetch' = [nfetch EXCEPT ![c] = 0]
    /\ fetchUrl' = [fetchUrl EXCEPT ![c] = None]
    /\ seen' = [seen EXCEPT ![c] = None]
    /\ NoWrapper(c)
    /\ \E thrown \in BOOLEAN :
         IF thrown
         THEN /\ pc' = [pc EXCEPT ![c] = "done"]
              /\ result' = [result EXCEPT ![c] = Rejected("storage")]
              /\ wfault' = [wfault EXCEPT ![c] = TRUE]
              /\ removals' = [removals EXCEPT ![c] = << "threw" >>]
              /\ seenBy' = [seenBy EXCEPT ![c] = storedBy]
              /\ UNCHANGED kept
         ELSE /\ pc' = [pc EXCEPT ![c] = "removeTimestamp"]
              /\ result' = [result EXCEPT ![c] = Pending]
              /\ wfault' = [wfault EXCEPT ![c] = FALSE]
              /\ removals' = [removals EXCEPT ![c] = << "removed" >>]
              /\ store' = removeItem(store, CACHE_KEY)
              /\ storedAds' = None
              /\ storedBy' = "none"
              /\ seenBy' = [d \in Callers |->
                             IF d = c THEN storedBy
                             ELSE IF pc[d] = "isCacheExpired" THEN "none" ELSE seenBy[d]]
              /\ UNCHANGED storedAt
    /\ bg' = clearAdsCache_inFlight(bg)
    /\ UNCHANGED << now, config >>

\* await storage.removeItem(CACHE_TIMESTAMP_KEY)
clearAdsCache_timestamp(c) ==
    /\ pc[c] = "removeTimestamp"
    /\ pc' = [pc EXCEPT ![c] = "done"]
    /\ \E thrown \in BOOLEAN :
         IF thrown
         THEN /\ result' = [result EXCEPT ![c] = Rejected("storage")]
              /\ wfault' = [wfault EXCEPT ![c] = TRUE]
              /\ removals' = [removals EXCEPT ![c] = Append(removals[c], "threw")]
              /\ UNCHANGED << kept, seenBy >>
         ELSE /\ result' = [result EXCEPT ![c] = Resolved(<< >>)]
              /\ removals' = [removals EXCEPT ![c] = Append(removals[c], "removed")]
              /\ storage_removeItem(c, CACHE_TIMESTAMP_KEY)
              /\ UNCHANGED wfault
    /\ bg' = clearAdsCache_inFlight(bg)
    /\ UNCHANGED << now, config, op, cachedAds, freshAds, bgEnded, resp, nfetch,
                    nwrites, path, rfault, tfault, seen, ttl, fetchUrl, wrapped >>

(***************************************************************************)
(* getAdById and getRandomAd await getAllAds and work on the list it       *)
(* resolved to.  outer names the function and its argument, result is the  *)
(* promise of the inner getAllAds, answer the promise the caller holds.    *)
(***************************************************************************)
\* variant: the last record with the id
RECURSIVE find_last(_, _)
find_last(ads, id) ==
    IF ads = << >> THEN None
    ELSE IF ads[Len(ads)].id = id THEN Some(ads[Len(ads)])
    ELSE find_last(SubSeq(ads, 1, Len(ads) - 1), id)

\* ads.find((ad) => ad.id === id): None stands for undefined
RECURSIVE find(_, _)
find(ads, id) ==
    IF ads = << >> THEN None
    ELSE IF Head(ads).id = id THEN Some(Head(ads))
    ELSE find(Tail(ads), id)

\* variant: an index rounded up
randomIndices_ceil(length) == 1..length

\* Math.floor(Math.random() * ads.length), Math.random() ranging over [0, 1)
randomIndices(length) == 0..(length - 1)

\* ads[index] with a zero-based index: None stands for undefined
at(ads, index) == IF index + 1 \in DOMAIN ads THEN Some(ads[index + 1]) ELSE None

\* the ids asked for: one the remote serves, one of the fallback list, one
\* that no list holds
QueryIds == {"app-development", "creative-strategy", "no-such-ad"}

getAdById(c, id) ==
    /\ getAllAds_getCachedAds(c)
    /\ outer' = [outer EXCEPT ![c] = [fn |-> "getAdById", id |-> id]]
    /\ answer' = [answer EXCEPT ![c] = Pending]

getRandomAd(c) ==
    /\ getAllAds_getCachedAds(c)
    /\ outer' = [outer EXCEPT ![c] = [fn |-> "getRandomAd", id |-> ""]]
    /\ answer' = [answer EXCEPT ![c] = Pending]

\* the awaited getAllAds has settled
Awaited(c, fn) ==
    /\ outer[c].fn = fn
    /\ answer[c].status = "pending"
    /\ pc[c] = "done"

\* return ads.find(...); a rejection of getAllAds would pass through
getAdById_return(c) ==
    /\ Awaited(c, "getAdById")
    /\ answer' = [answer EXCEPT ![c] =
          IF result[c].status = "rejected" THEN Rejected(result[c].err)
          ELSE Resolved(find(result[c].value, outer[c].id))]
    /\ UNCHANGED << now, config, locals, bg, bgEnded, kept, observed, outer >>

\* if (ads.length === 0) return null; return ads[Math.floor(...)]
getRandomAd_return(c) ==
    /\ Awaited(c, "getRandomAd")
    /\ IF result[c].status = "rejected"
       THEN answer' = [answer EXCEPT ![c] = Rejected(result[c].err)]
       ELSE IF Len(result[c].value) = 0
       THEN answer' = [answer EXCEPT ![c] = Resolved(None)]
       ELSE \E index \in randomIndices(Len(result[c].value)) :
              answer' = [answer EXCEPT ![c] = Resolved(at(result[c].value, index))]
    /\ UNCHANGED << now, config, locals, bg, bgEnded, kept, observed, outer >>

(***************************************************************************)
(* initializeAdsSDK: each field that is given and usable replaces the      *)
(* module-level value; console.warn is all a URL without http(s) causes.   *)
(***************************************************************************)
\* config.apiUrl.replace(/\/$/, ''): one trailing slash is dropped
replaceTrailingSlash(url) ==
    IF Len(url) > 0 /\ url[Len(url)] = "/" THEN SubSeq(url, 1, Len(url) - 1) ELSE url

\* if (config?.apiUrl) { ... API_URL = ... }: undefined and '' are falsy
adoptUrl(given, previous) ==
    IF Falsy(given) THEN previous ELSE replaceTrailingSlash(TheValue(given))

\* variant: a negative duration adopted like any other
adoptDuration_unchecked(given, previous) ==
    IF ~IsSome(given) THEN previous ELSE TheValue(given)

\* if (config?.cacheDuration !== undefined) { if (< 0) warn; else adopt }
adoptDuration(given, previous) ==
    IF ~IsSome(given) THEN previous
    ELSE IF TheValue(given) < 0 THEN previous
    ELSE TheValue(given)

\* an API URL without scheme and an intake base URL with one
CustomApiUrl == << "ads.example.com", "/content" >>
CustomIntakeBaseUrl == << "https://intake.example.com" >>

\* arguments of initializeAdsSDK: no argument at all (three absent fields),
\* every field usable, every field present but unusable, one field alone
NoConfig == [apiUrl |-> None, intakeBaseUrl |-> None, cacheDuration |-> None]
Configs ==
    { NoConfig,
      [apiUrl |-> Some(CustomApiUrl \o << "/" >>),
       intakeBaseUrl |-> Some(CustomIntakeBaseUrl \o << "/" >>),
       cacheDuration |-> Some(0)],
      [apiUrl |-> Some(<< >>), intakeBaseUrl |-> Some(<< >>), cacheDuration |-> Some(-1)],
      [NoConfig EXCEPT !.intakeBaseUrl = Some(CustomIntakeBaseUrl)],
      [NoConfig EXCEPT !.cacheDuration = Some(DefaultCacheDuration + 1)] }

initializeAdsSDK(cfg) ==
    /\ API_URL' = adoptUrl(cfg.apiUrl, API_URL)
    /\ INTAKE_BASE_URL' = adoptUrl(cfg.intakeBaseUrl, INTAKE_BASE_URL)
    /\ CACHE_DURATION' = adoptDuration(cfg.cacheDuration, CACHE_DURATION)
    /\ UNCHANGED << now, locals, bg, bgEnded, kept, observed, wrapped >>

(***************************************************************************)
(* The detached chain of the Stale path:                                   *)
(*   fetchAdsFromAPI().then(setCachedAds).catch(log)                       *)
(* No caller holds its promise.  0 is the identity of no caller.           *)
(***************************************************************************)
Chain(p, ads) == SetToBag({[pc |-> p, ads |-> ads]})
Chains(p) == {t \in BagToSet(bg) : t.pc = p}

\* variant: a failed background refresh drops the cache entry
backgroundRefreshFailed_drops ==
    /\ store' = [k \in Keys |-> None]
    /\ storedAds' = None
    /\ storedAt' = None
    /\ storedBy' = "none"
    /\ UNCHANGED seenBy

\* .catch((error) => console.error(...)): the failure is logged, nothing else
backgroundRefreshFailed ==
    UNCHANGED << kept, seenBy >>

bgFetch ==
    /\ \E t \in Chains("fetch"), r \in Responses :
         LET f == fetchAdsFromAPI(r, INTAKE_BASE_URL)
         IN IF f.ok
            THEN /\ bg' = (bg (-) SetToBag({t})) (+) Chain("setPayload", f.ads)
                 /\ UNCHANGED << kept, seenBy, bgEnded >>
            ELSE /\ bg' = bg (-) SetToBag({t})
                 /\ bgEnded' = "fetchFailed"
                 /\ backgroundRefreshFailed
    /\ UNCHANGED << now, config, locals, resp, nfetch, nwrites, path, rfault, tfault,
                    wfault, seen, ttl, fetchUrl, removals, wrapped >>

bgSetCachedAds_payload ==
    /\ \E t \in Chains("setPayload"), thrown \in BOOLEAN :
         IF thrown
         THEN /\ bg' = bg (-) SetToBag({t})
              /\ bgEnded' = "writeFailed"
              /\ UNCHANGED << kept, seenBy >>
         ELSE /\ storage_setPayload(0, t.ads)
              /\ bg' = (bg (-) SetToBag({t})) (+) Chain("setTimestamp", t.ads)
              /\ UNCHANGED bgEnded
    /\ UNCHANGED << now, config, locals, resp, nfetch, nwrites, path, rfault, tfault,
                    wfault, seen, ttl, fetchUrl, removals, wrapped >>

bgSetCachedAds_timestamp ==
    /\ \E t \in Chains("setTimestamp"), thrown \in BOOLEAN :
         /\ bg' = bg (-) SetToBag({t})
         /\ IF thrown
            THEN /\ bgEnded' = "writeFailed"
                 /\ UNCHANGED << kept, seenBy >>
            ELSE /\ bgEnded' = "persisted"
                 /\ storage_setTimestamp(0, "background", t.ads)
    /\ UNCHANGED << now, config, locals, resp, nfetch, nwrites, path, rfault, tfault,
                    wfault, seen, ttl, fetchUrl, removals, wrapped >>

Next ==
    \/ Tick
    \/ \E c \in Callers : getAllAds(c)
    \/ \E c \in Callers : getAllAds_isCacheExpired(c)
    \/ \E c \in Callers : awaitFetch(c)
    \/ \E c \in Callers : setCachedAds_payload(c)
    \/ \E c \in Callers : setCachedAds_timestamp(c)
    \/ \E c \in Callers : refreshAds(c)
    \/ \E c \in Callers : clearAdsCache(c)
    \/ \E c \in Callers : clearAdsCache_timestamp(c)
    \/ bgFetch
    \/ bgSetCachedAds_payload
    \/ bgSetCachedAds_timestamp

Spec == Init /\ [][Next]_vars

\* the application reconfigures the service between its getAllAds() calls
NextConfig ==
    \/ Tick
    \/ \E cfg \in Configs : initializeAdsSDK(cfg)
    \/ \E c \in Callers : getAllAds(c)
    \/ \E c \in Callers : getAllAds_isCacheExpired(c)
    \/ \E c \in Callers : awaitFetch(c)
    \/ \E c \in Callers : setCachedAds_payload(c)
    \/ \E c \in Callers : setCachedAds_timestamp(c)

SpecConfig == Init /\ [][NextConfig]_vars

\* lists an earlier session of the application may have left in the store:
\* none, the empty list, a list that holds one id twice
AdApp == transformService(ServiceApp, DefaultIntakeBaseUrl)
AdAppRelaunch == [AdApp EXCEPT !.title = "App Development, relaunched"]
EarlierSessions == { None, Some(<< >>), Some(<< AdApp, AdAppRelaunch >>) }

\* the module is loaded over the store of an earlier session, written at the
\* time the clock of this model starts from
InitQuery ==
    /\ now = 0
    /\ InitConfig
    /\ InitCallers({1})
    /\ bg = EmptyBag
    /\ bgEnded = "none"
    /\ \E left \in EarlierSessions :
         /\ storedAds = left
         /\ storedAt = IF IsSome(left) THEN Some(0) ELSE None
         /\ storedBy = IF IsSome(left) THEN "none" ELSE "firstRun"
         /\ store = [k \in Keys |->
                       IF ~IsSome(left) THEN None
                       ELSE IF k = CACHE_KEY THEN Some(JSONstringify(TheValue(left)))
                       ELSE Some(toString(0))]

\* the application asks for single ads only
NextQuery ==
    \/ Tick
    \/ \E c \in Callers, id \in QueryIds : getAdById(c, id)
    \/ \E c \in Callers : getRandomAd(c)
    \/ \E c \in Callers : getAllAds_isCacheExpired(c)
    \/ \E c \in Callers : awaitFetch(c)
    \/ \E c \in Callers : setCachedAds_payload(c)
    \/ \E c \in Callers : setCachedAds_timestamp(c)
    \/ \E c \in Callers : getAdById_return(c)
    \/ \E c \in Callers : getRandomAd_return(c)

SpecQuery == InitQuery /\ [][NextQuery]_vars

\* service records of the remote: every id and accent of the two tables and
\* one outside each, with and without features
ServiceIds ==
    {"app-development", "website-building", "game-development", "tutoring",
     "online-presence", "podcast-editing"}
ServiceAccents == {"#0E668B", "#1E9E70", "#723B80", "#EEA444", "#D63C83", "#123456"}
Services ==
    { [ServiceApp EXCEPT !.id = i, !.accent = a, !.features = f] :
        i \in ServiceIds, a \in ServiceAccents, f \in {None, Some(<< "Design", "Build" >>)} }

\* the bodies of a 2xx response: no services field, no service, one service,
\* two services in either order
Payloads ==
    { [kind |-> "ok", services |-> None], [kind |-> "ok", services |-> Some(<< >>)] }
    \cup { [kind |-> "ok", services |-> Some(<< s >>)] : s \in Services }
    \cup { [kind |-> "ok", services |-> Some(<< s, ServiceOther >>)] : s \in Services }
    \cup { [kind |-> "ok", services |-> Some(<< ServiceOther, s >>)] : s \in Services }

\* refreshAds() has been called on the first run and one of the bodies is on
\* its way
InitTransform ==
    /\ now = 0
    /\ InitConfig
    /\ InitStore
    /\ pc = [c \in {1} |-> "fetch"]
    /\ op = [c \in {1} |-> "refreshAds"]
    /\ cachedAds = [c \in {1} |-> None]
    /\ freshAds = [c \in {1} |-> << >>]
    /\ result = [c \in {1} |-> Pending]
    /\ resp \in [{1} -> {Some(r) : r \in Payloads}]
    /\ nfetch = [c \in {1} |-> 1]
    /\ nwrites = [c \in {1} |-> 0]
    /\ path = [c \in {1} |-> "none"]
    /\ rfault = [c \in {1} |-> FALSE]
    /\ tfault = [c \in {1} |-> FALSE]
    /\ wfault = [c \in {1} |-> FALSE]
    /\ seen = [c \in {1} |-> None]
    /\ seenBy = [c \in {1} |-> "none"]
    /\ ttl = [c \in {1} |-> "none"]
    /\ fetchUrl = [c \in {1} |-> Some(DefaultApiUrl)]
    /\ removals = [c \in {1} |-> << >>]
    /\ outer = [c \in {1} |-> NoOuter]
    /\ answer = [c \in {1} |-> Pending]

\* the intake base URL may be configured before the body arrives
NextTransform ==
    \/ \E cfg \in Configs : initializeAdsSDK(cfg)
    \/ \E c \in Callers : awaitFetch_onTheWire(c)
    \/ \E c \in Callers : setCachedAds_payload(c)
    \/ \E c \in Callers : setCachedAds_timestamp(c)

SpecTransform == InitTransform /\ [][NextTransform]_vars

\* two callers on the first run, nothing else going on
InitRace ==
    /\ now = 0
    /\ InitConfig
    /\ InitStore
    /\ InitCallers({1, 2})

NextRace ==
    \/ \E c \in Callers : getAllAds(c)
    \/ \E c \in Callers : getAllAds_isCacheExpired(c)
    \/ \E c \in Callers : awaitFetch(c)
    \/ \E c \in Callers : setCachedAds_payload(c)
    \/ \E c \in Callers : setCachedAds_timestamp(c)

SpecRace == InitRace /\ [][NextRace]_vars

\* one persist at a time: refreshAds() calls over the store an earlier
\* session left, with nothing else writing
NextPersist ==
    \/ Tick
    \/ \E c \in Callers : refreshAds(c)
    \/ \E c \in Callers : awaitFetch(c)
    \/ \E c \in Callers : setCachedAds_payload(c)
    \/ \E c \in Callers : setCachedAds_timestamp(c)

SpecPersist == InitQuery /\ [][NextPersist]_vars

\* the application is started by two callers more than the time-to-live
\* after an earlier session stored a list
InitStale ==
    /\ now = DefaultCacheDuration + 1
    /\ InitConfig
    /\ InitCallers({1, 2})
    /\ bg = EmptyBag
    /\ bgEnded = "none"
    /\ storedAds = Some(<< AdApp, AdAppRelaunch >>)
    /\ storedAt = Some(0)
    /\ storedBy = "none"
    /\ store = [k \in Keys |->
                  IF k = CACHE_KEY THEN Some(JSONstringify(<< AdApp, AdAppRelaunch >>))
                  ELSE Some(toString(0))]

\* one caller asks again and again; the other is idle, and is there for the
\* second chain that MaxInFlight lets be in flight
NextStale ==
    \/ getAllAds(1)
    \/ getAllAds_isCacheExpired(1)
    \/ awaitFetch(1)
    \/ setCachedAds_payload(1)
    \/ setCachedAds_timestamp(1)
    \/ bgFetch
    \/ bgSetCachedAds_payload
    \/ bgSetCachedAds_timestamp

SpecStale == InitStale /\ [][NextStale]_vars

\* the two mirrors follow the store
StoreMirrored ==
    /\ storedAds = getCachedAds(store[CACHE_KEY], FALSE)
    /\ IsSome(storedAt) = IsSome(store[CACHE_TIMESTAMP_KEY])
    /\ IsSome(storedAt) => parseInt(TheValue(store[CACHE_TIMESTAMP_KEY])) = TheValue(storedAt)

(***************************************************************************)
(* Properties.  The cache states are those a call observes: Absent when no *)
(* payload is stored or its read threw, Fresh and Stale by the stored time *)
(* against the clock at the read of the timestamp.                         *)
(***************************************************************************)
Done(c, o) == pc[c] = "done" /\ op[c] = o
FetchFailed(c) == IsSome(resp[c]) /\ TheValue(resp[c]).kind # "ok"
FetchOk(c) == IsSome(resp[c]) /\ TheValue(resp[c]).kind = "ok"
\* the service records of the body caller c received
ServicesOf(c) ==
    IF IsSome(TheValue(resp[c]).services) THEN TheValue(TheValue(resp[c]).services) ELSE << >>
\* the list read back from the store is, record by record, the list l
SameIds(l, services) ==
    /\ Len(l) = Len(services)
    /\ \A i \in 1..Len(services) : l[i].id = services[i].id
SawPayload(c) == IsSome(seen[c]) /\ ~rfault[c]
SawFresh(c) == SawPayload(c) /\ ttl[c] = "fresh" /\ ~tfault[c]
SawStale(c) == SawPayload(c) /\ ttl[c] = "expired" /\ ~tfault[c]

\* C1: in every cache state and under every failure of the store reads, the
\* store writes and the remote fetch, a getAllAds() call is never rejected and,
\* once it has returned, is resolved with a list.
C1_GetAllNeverRejects ==
    \A c \in Callers :
        op[c] = "getAllAds" =>
            /\ result[c].status # "rejected"
            /\ pc[c] = "done" =>
                 /\ result[c].status = "resolved"
                 /\ DOMAIN result[c].value = 1..Len(result[c].value)

\* a getAllAds() call that returned although its payload read threw and its
\* fetch failed
C1_Witness ==
    \E c \in Callers :
        /\ Done(c, "getAllAds") /\ rfault[c] /\ FetchFailed(c)
        /\ result[c].status = "resolved"

\* a getAllAds() call that returned although a write of its persist threw
C1_WitnessWrite ==
    \E c \in Callers :
        /\ Done(c, "getAllAds") /\ wfault[c] /\ FetchOk(c)
        /\ result[c].status = "resolved"

\* C2: after any sequence of getAllAds(), refreshAds() and clearAdsCache() calls
\* and any remote responses, every getAllAds() call returns a non-empty list.
C2_AlwaysRenderable ==
    \A c \in Callers :
        Done(c, "getAllAds") =>
            result[c].status = "resolved" /\ Len(result[c].value) > 0

\* C3: when a payload is stored and now - timestamp <= cacheDuration (boundary
\* included), getAllAds() returns the stored list, issues no fetch and makes
\* no store write.
C3_FreshStep ==
    \A c \in Callers :
        (pc[c] = "isCacheExpired" /\ pc'[c] # "isCacheExpired" /\ SawFresh(c)')
            => (pc'[c] = "done" /\ bg' = bg /\ store' = store)

C3_FreshDone ==
    \A c \in Callers :
        (Done(c, "getAllAds") /\ SawFresh(c)) =>
            /\ result[c] = Resolved(TheValue(seen[c]))
            /\ nfetch[c] = 0
            /\ nwrites[c] = 0

C3_FreshServesCache == [] C3_FreshDone /\ [][C3_FreshStep]_vars

\* a Fresh call at the boundary: the stored time is exactly cacheDuration old
C3_Witness ==
    \E c \in Callers :
        /\ Done(c, "getAllAds") /\ SawFresh(c)
        /\ IsSome(storedAt) /\ now - TheValue(storedAt) = CACHE_DURATION
        /\ Len(result[c].value) > 0
        /\ nfetch[c] = 0

\* C4: when a payload is stored and now - timestamp > cacheDuration, one
\* getAllAds() call returns the stored list and starts exactly one background
\* fetch, which it does not await; once a background chain has fetched a list
\* and completed its persist, a later getAllAds() call returns that list.
C4_StaleStep ==
    \A c \in Callers :
        (pc[c] = "isCacheExpired" /\ pc'[c] # "isCacheExpired" /\ SawStale(c)')
            => /\ pc'[c] = "done"
               /\ bg' = bg (+) Chain("fetch", << >>)
               /\ store' = store

C4_StaleDone ==
    \A c \in Callers :
        (Done(c, "getAllAds") /\ SawStale(c)) =>
            /\ result[c] = Resolved(TheValue(seen[c]))
            /\ nfetch[c] = 1
            /\ nwrites[c] = 0

\* the persist of a background chain stores what the chain fetched
C4_BackgroundPersists ==
    (bgEnded' = "persisted" /\ BagCardinality(bg') < BagCardinality(bg)) =>
        \E t \in Chains("setTimestamp") :
            /\ bg' = bg (-) SetToBag({t})
            /\ store'[CACHE_TIMESTAMP_KEY] = Some(toString(now))
            /\ storedBy' = "background" =>
                 getCachedAds(store'[CACHE_KEY], FALSE) = Some(t.ads)

C4_SeesBackground ==
    \A c \in Callers :
        (Done(c, "getAllAds") /\ seenBy[c] = "background" /\ ~rfault[c]) =>
            /\ IsSome(seen[c])
            /\ result[c] = Resolved(TheValue(seen[c]))

C4_StaleWhileRevalidate ==
    /\ [] (C4_StaleDone /\ C4_SeesBackground)
    /\ [][C4_StaleStep /\ C4_BackgroundPersists]_vars

\* a call returned the non-empty list a background chain had persisted
C4_Witness ==
    \E c \in Callers :
        /\ Done(c, "getAllAds") /\ seenBy[c] = "background" /\ ~rfault[c]
        /\ Len(result[c].value) > 0
        /\ bgEnded = "none"

\* a Stale call has returned while its background fetch is still in flight
C4_WitnessStale ==
    \E c \in Callers :
        /\ Done(c, "getAllAds") /\ SawStale(c)
        /\ Chains("fetch") # {}
        /\ result[c].status = "resolved"

\* C5: when the fetch of a background chain fails, the stored payload and the
\* stored timestamp are unchanged and no caller's promise is touched.
C5_BackgroundFailureIsSilent ==
    [][ (bgEnded' = "fetchFailed" /\ BagCardinality(bg') < BagCardinality(bg)) =>
            /\ store' = store
            /\ result' = result
            /\ pc' = pc ]_vars

\* the Stale caller holds the cached list, its background fetch has failed and
\* the store still holds what the caller read
C5_Witness ==
    \E c \in Callers :
        /\ Done(c, "getAllAds") /\ SawStale(c)
        /\ bgEnded = "fetchFailed" /\ bg = EmptyBag
        /\ result[c] = Resolved(TheValue(seen[c]))
        /\ storedAds = seen[c]

\* the list fetchAdsFromAPI makes of the body caller c received
FetchedBy(c) == fetchAdsFromAPI(TheValue(resp[c]), INTAKE_BASE_URL).ads

\* the two writes of the persist of caller c running function o: the payload
\* written parses back to the fetched list, the timestamp written is the
\* clock, and a completed persist holds what the call returns
PersistSteps(c, o) ==
    /\ (op[c] = o /\ pc[c] = "setPayload" /\ pc'[c] = "setTimestamp") =>
          getCachedAds(store'[CACHE_KEY], FALSE) = Some(freshAds[c])
    /\ (op[c] = o /\ pc[c] = "setTimestamp" /\ pc'[c] = "done" /\ ~wfault'[c]) =>
          /\ store'[CACHE_TIMESTAMP_KEY] = Some(toString(now))
          /\ ~isCacheExpired(store'[CACHE_TIMESTAMP_KEY], FALSE, now, CACHE_DURATION)
          /\ (storedBy' = o /\ Len(freshAds[c]) > 0) =>
                getCachedAds(store'[CACHE_KEY], FALSE) = Some(result'[c].value)

\* C6: in the Absent state, with a non-empty service list from the remote
\* source and a store that accepts the writes, getAllAds() returns the
\* transformed list and persists payload and timestamp; the next getAllAds()
\* before expiry returns the identical list without a fetch.
C6_AbsentDone ==
    \A c \in Callers :
        (/\ Done(c, "getAllAds") /\ ~IsSome(seen[c])
         /\ FetchOk(c) /\ Len(ServicesOf(c)) > 0 /\ ~wfault[c]) =>
            /\ result[c] = Resolved(FetchedBy(c))
            /\ SameIds(result[c].value, ServicesOf(c))
            /\ nfetch[c] = 1
            /\ nwrites[c] = 2

C6_NextCall ==
    \A c \in Callers :
        (/\ Done(c, "getAllAds") /\ seenBy[c] = "getAllAds"
         /\ SawFresh(c) /\ Len(TheValue(seen[c])) > 0) =>
            /\ result[c] = Resolved(TheValue(seen[c]))
            /\ nfetch[c] = 0

C6_AbsentFetchesAndPersists ==
    /\ [] (C6_AbsentDone /\ C6_NextCall)
    /\ [][\A c \in Callers : PersistSteps(c, "getAllAds")]_vars

\* the call after an Absent call that fetched and persisted two records: it
\* returns them from the cache
C6_Witness ==
    \E c \in Callers :
        /\ Done(c, "getAllAds") /\ seenBy[c] = "getAllAds" /\ SawFresh(c)
        /\ Len(result[c].value) = 2
        /\ nfetch[c] = 0

\* C7: in the Absent state, when the fetch fails, getAllAds() returns the
\* static fallback list of 4 entries and writes nothing, so the next
\* getAllAds() is Absent again and issues a new fetch.
C7_FailDone ==
    \A c \in Callers :
        (Done(c, "getAllAds") /\ FetchFailed(c)) =>
            /\ ~IsSome(seen[c]) \/ rfault[c]
            /\ result[c] = Resolved(fallbackAds)
            /\ Len(result[c].value) = 4
            /\ nfetch[c] = 1
            /\ nwrites[c] = 0

C7_Retry ==
    \A c \in Callers :
        (op[c] = "getAllAds" /\ seenBy[c] = "getAllAdsFailed" /\ pc[c] # "isCacheExpired") =>
            /\ ~IsSome(seen[c])
            /\ path[c] = "absent"
            /\ nfetch[c] = 1

C7_FailStep ==
    \A c \in Callers :
        (op[c] = "getAllAds" /\ pc[c] = "fetch" /\ pc'[c] = "done") => store' = store

C7_AbsentFailureFallsBack ==
    /\ [] (C7_FailDone /\ C7_Retry)
    /\ [][C7_FailStep]_vars

\* the call after a failed Absent call has its own fetch in flight
C7_Witness ==
    \E c \in Callers :
        /\ op[c] = "getAllAds" /\ seenBy[c] = "getAllAdsFailed"
        /\ pc[c] = "fetch" /\ nfetch[c] = 1
        /\ store[CACHE_KEY] = None

\* C8: when its fetch fails (non-2xx, transport error, malformed body),
\* refreshAds() rejects with that error, leaves payload and timestamp as they
\* were and does not substitute the fallback list.
C8_RejectDone ==
    \A c \in Callers :
        (Done(c, "refreshAds") /\ FetchFailed(c)) =>
            /\ result[c] = Rejected(TheValue(resp[c]).kind)
            /\ nwrites[c] = 0

C8_RejectStep ==
    \A c \in Callers :
        (op[c] = "refreshAds" /\ pc[c] = "fetch" /\ pc'[c] = "done") =>
            /\ store' = store
            /\ result'[c].status = "rejected"

C8_RefreshFailureRejects == [] C8_RejectDone /\ [][C8_RejectStep]_vars

\* a rejected refreshAds() over a stored cache entry
C8_Witness ==
    \E c \in Callers :
        /\ Done(c, "refreshAds") /\ result[c].status = "rejected"
        /\ result[c].err = "parse"
        /\ IsSome(store[CACHE_KEY]) /\ IsSome(store[CACHE_TIMESTAMP_KEY])

\* C9: in every cache state refreshAds() issues a fetch; on success it writes
\* the fetched list and a new timestamp and returns exactly the fetched list,
\* the empty one included, and a following getAllAds() before expiry returns
\* that list without a fetch.
C9_Fetches ==
    \A c \in Callers :
        op[c] = "refreshAds" =>
            /\ nfetch[c] = 1
            /\ pc[c] = "fetch" \/ IsSome(resp[c])

C9_OkDone ==
    \A c \in Callers :
        (Done(c, "refreshAds") /\ FetchOk(c)) =>
            /\ result[c] = Resolved(FetchedBy(c))
            /\ SameIds(result[c].value, ServicesOf(c))
            /\ nwrites[c] >= 1
            /\ ~wfault[c] => nwrites[c] = 2

C9_Following ==
    \A c \in Callers :
        (Done(c, "getAllAds") /\ seenBy[c] = "refreshAds" /\ SawFresh(c)) =>
            /\ result[c] = Resolved(TheValue(seen[c]))
            /\ nfetch[c] = 0

C9_RefreshFetchesAndPersists ==
    /\ [] (C9_Fetches /\ C9_OkDone /\ C9_Following)
    /\ [][\A c \in Callers : PersistSteps(c, "refreshAds")]_vars

\* after a refreshAds() that fetched and persisted the empty list, getAllAds()
\* returns the empty list from the cache
C9_Witness ==
    \E c \in Callers :
        /\ Done(c, "getAllAds") /\ seenBy[c] = "refreshAds" /\ SawFresh(c)
        /\ result[c] = Resolved(<< >>)
        /\ nfetch[c] = 0

\* refreshAds() has its fetch in flight over a Fresh cache entry
C9_WitnessFresh ==
    \E c \in Callers :
        /\ op[c] = "refreshAds" /\ pc[c] = "fetch"
        /\ storedBy \in {"getAllAds", "refreshAds", "background"}
        /\ Age(storedAt, now, CACHE_DURATION) = "fresh"

\* C10: when the fetch of refreshAds() succeeds and a write of the persist
\* throws, refreshAds() still resolves with the fetched list.
C10_RefreshSurvivesWriteFailure ==
    \A c \in Callers :
        (Done(c, "refreshAds") /\ FetchOk(c) /\ wfault[c]) =>
            /\ result[c].status = "resolved"
            /\ result[c].value = FetchedBy(c)
            /\ SameIds(result[c].value, ServicesOf(c))

\* refreshAds() resolved with two records although its payload write threw
C10_Witness ==
    \E c \in Callers :
        /\ Done(c, "refreshAds") /\ FetchOk(c) /\ wfault[c] /\ nwrites[c] = 1
        /\ result[c].status = "resolved" /\ Len(result[c].value) = 2

(***************************************************************************)
(* clearAdsCache                                                           *)
(***************************************************************************)
Threw(c) == {i \in 1..Len(removals[c]) : removals[c][i] = "threw"}

\* C11: clearAdsCache() rejects only if both removals fail; when exactly one
\* of the two removals fails, the other removal is still performed and the
\* call resolves.
C11_ClearIsBestEffort ==
    \A c \in Callers :
        Done(c, "clearAdsCache") =>
            /\ result[c].status = "rejected" => removals[c] = << "threw", "threw" >>
            /\ Cardinality(Threw(c)) = 1 =>
                  Len(removals[c]) = 2 /\ result[c].status = "resolved"

NoKey == [k \in Keys |-> None]
BothRemoved(c) == removals[c] = << "removed", "removed" >>

\* the two removals of a clearAdsCache() call whose store does not throw:
\* each deletes its key and leaves the other key alone, and a store that
\* holds neither key is left as it is
C12_RemoveSteps ==
    \A c \in Callers :
        /\ (CanCall(c) /\ op'[c] = "clearAdsCache" /\ pc'[c] = "removeTimestamp") =>
              /\ store'[CACHE_KEY] = None
              /\ store'[CACHE_TIMESTAMP_KEY] = store[CACHE_TIMESTAMP_KEY]
              /\ store = NoKey => store' = NoKey
        /\ (pc[c] = "removeTimestamp" /\ pc'[c] = "done" /\ BothRemoved(c)') =>
              /\ store'[CACHE_TIMESTAMP_KEY] = None
              /\ store'[CACHE_KEY] = store[CACHE_KEY]
              /\ store = NoKey => store' = NoKey
              /\ result'[c] = Resolved(<< >>)

\* a completed clearAdsCache() resolves, over a stored entry as over a store
\* that an earlier clearAdsCache() emptied, and leaves both keys absent
\* until something is written again
C12_ClearDone ==
    \A c \in Callers :
        (Done(c, "clearAdsCache") /\ BothRemoved(c)) =>
            /\ result[c].status = "resolved"
            /\ storedBy = "clearAdsCache" => store = NoKey

\* C12: with a store whose removals do not throw, clearAdsCache() removes both
\* the payload and the timestamp, and is idempotent: on an already absent
\* cache it resolves and the cache stays absent.
C12_ClearRemovesBoth == []C12_ClearDone /\ [][C12_RemoveSteps]_vars

\* clearAdsCache() completed over an entry that a persist had written in full
C12_Witness ==
    \E c \in Callers :
        /\ Done(c, "clearAdsCache") /\ BothRemoved(c)
        /\ seenBy[c] \in {"getAllAds", "refreshAds", "background"}
        /\ storedBy = "clearAdsCache" /\ store = NoKey

\* clearAdsCache() completed a second time over the store it had emptied
C12_WitnessAgain ==
    \E c \in Callers :
        /\ Done(c, "clearAdsCache") /\ BothRemoved(c)
        /\ seenBy[c] = "clearAdsCache"
        /\ storedBy = "clearAdsCache" /\ store = NoKey

\* what a getAllAds() call over an empty store resolves to on response r
FirstEverResult(r, intakeBaseUrl) ==
    LET f == fetchAdsFromAPI(r, intakeBaseUrl)
    IN IF f.ok /\ Len(f.ads) > 0 THEN Resolved(f.ads) ELSE Resolved(fallbackAds)

\* a getAllAds() call that read the store as the application's first run or
\* a completed clearAdsCache() left it
ReadsEmptied(c, by) == op[c] = "getAllAds" /\ seenBy[c] = by

\* such a call takes the Absent path, awaits one fetch, resolves to what the
\* response determines and makes the writes the response determines
LikeFirstEver(c) ==
    /\ pc[c] # "isCacheExpired" =>
          path[c] = "absent" /\ nfetch[c] = 1
    /\ pc[c] = "fetch" => result[c] = Pending /\ ~IsSome(resp[c])
    /\ pc[c] \in {"setPayload", "setTimestamp"} =>
          FetchOk(c) /\ freshAds[c] = FetchedBy(c)
    /\ pc[c] = "done" =>
          /\ IsSome(resp[c])
          /\ result[c] = FirstEverResult(TheValue(resp[c]), INTAKE_BASE_URL)
          /\ nwrites[c] \in (IF FetchFailed(c) THEN {0}
                            ELSE IF wfault[c] THEN {1, 2} ELSE {2})

\* C13: clearAdsCache() followed by getAllAds() behaves exactly like a
\* first-ever getAllAds(): it takes the Absent path, awaits exactly one fetch,
\* and returns and persists what a first-ever call returns and persists for
\* the same remote response.
C13_ClearThenGetIsFirstEver ==
    \A c \in Callers :
        /\ ReadsEmptied(c, "firstRun") => LikeFirstEver(c)
        /\ ReadsEmptied(c, "clearAdsCache") => LikeFirstEver(c)

\* getAllAds() after a completed clearAdsCache() over a Fresh entry fetched
\* and persisted a two-record list
C13_Witness ==
    \E c \in Callers :
        /\ Done(c, "getAllAds") /\ seenBy[c] = "clearAdsCache"
        /\ storedBy = "getAllAds" /\ nwrites[c] = 2
        /\ Len(result[c].value) = 2

(***************************************************************************)
(* Waiting for the network                                                 *)
(***************************************************************************)
\* the step that takes a getAllAds() call out of the await of its fetch
FetchSettles(c) == pc[c] = "fetch" /\ pc'[c] # "fetch"

\* a call that read a payload returns in the step that evaluates the
\* timestamp, whatever chain it starts, and never holds a response
C14_CachedStep ==
    \A c \in Callers :
        (pc[c] = "isCacheExpired" /\ pc'[c] # "isCacheExpired" /\ IsSome(cachedAds[c])) =>
            /\ pc'[c] = "done"
            /\ result'[c] = Resolved(TheValue(cachedAds[c]))
            /\ ~IsSome(resp'[c])

\* a call that read no payload stays pending while its fetch is in flight,
\* however much time passes, and leaves the await only with a response
C14_AbsentStep ==
    \A c \in Callers :
        /\ (pc[c] = "isCacheExpired" /\ pc'[c] # "isCacheExpired" /\ ~IsSome(cachedAds[c])) =>
              pc'[c] = "fetch" /\ result'[c] = Pending
        /\ (op[c] = "getAllAds" /\ pc[c] = "fetch" /\ now' # now) =>
              pc'[c] = "fetch" /\ result'[c] = Pending
        /\ (op[c] = "getAllAds" /\ FetchSettles(c)) => IsSome(resp'[c])

C14_Returned ==
    \A c \in Callers :
        Done(c, "getAllAds") =>
            /\ path[c] \in {"fresh", "stale"} =>
                  ~IsSome(resp[c]) /\ result[c] = Resolved(TheValue(cachedAds[c]))
            /\ path[c] = "absent" => IsSome(resp[c])
            /\ path[c] = "absent" <=> ~IsSome(cachedAds[c])

\* C14: when a payload is stored (Fresh or Stale) getAllAds() completes
\* without waiting for the network; only in the Absent state does it wait for
\* the fetch, and it then returns only once the fetch has resolved or failed.
C14_OnlyAbsentWaits == []C14_Returned /\ [][C14_CachedStep /\ C14_AbsentStep]_vars

\* a Stale getAllAds() has returned while the fetch it started is unanswered
C14_Witness ==
    \E c \in Callers :
        /\ Done(c, "getAllAds") /\ path[c] = "stale"
        /\ result[c].status = "resolved"
        /\ Chains("fetch") # {}

\* an Absent getAllAds() is still pending after the clock has advanced
C14_WitnessWaiting ==
    \E c \in Callers :
        /\ op[c] = "getAllAds" /\ pc[c] = "fetch" /\ result[c] = Pending
        /\ now > 0 /\ fetchUrl[c] = Some(API_URL)

(***************************************************************************)
(* Configuration                                                           *)
(***************************************************************************)
StartsWith(url, base) ==
    Len(url) >= Len(base) /\ SubSeq(url, 1, Len(base)) = base

\* the step in which a getAllAds() call returns
Returns(c) == op'[c] = "getAllAds" /\ pc[c] # "done" /\ pc'[c] = "done"

\* freshness is decided on the cacheDuration configured when the call reads
\* the timestamp
C15_CurrentDuration ==
    \A c \in Callers :
        (pc[c] = "isCacheExpired" /\ pc'[c] # "isCacheExpired"
           /\ IsSome(cachedAds[c]) /\ IsSome(storedAt) /\ ~tfault'[c]) =>
            (path'[c] = "fresh" <=> now - TheValue(storedAt) <= CACHE_DURATION)

\* a fetch goes to the apiUrl configured when it is issued
C15_CurrentApiUrl ==
    \A c \in Callers : nfetch'[c] > nfetch[c] => fetchUrl'[c] = Some(API_URL)

\* every record getAllAds() returns has its ctaUrl composed from the intake
\* base URL configured when the call returns
C15_CurrentIntakeBaseUrl ==
    \A c \in Callers :
        Returns(c) =>
            \A i \in 1..Len(result'[c].value) :
                StartsWith(result'[c].value[i].ctaUrl, INTAKE_BASE_URL)

\* C15: configuration is never snapshotted: after initializeAdsSDK() the next
\* operation uses the new cacheDuration for freshness and the new apiUrl for
\* its fetch, and the ctaUrl of every record getAllAds() returns (fetched,
\* cached or static fallback) is composed from the current intake base URL.
C15_ConfigNeverSnapshotted ==
    [][C15_CurrentDuration /\ C15_CurrentApiUrl /\ C15_CurrentIntakeBaseUrl]_vars

\* the two parts of C15 that do hold
C15_DurationAndApiUrl == [][C15_CurrentDuration /\ C15_CurrentApiUrl]_vars

\* what initializeAdsSDK(cfg) is to do to a URL setting
UrlAdopted(given, before, after) ==
    IF ~IsSome(given) \/ TheValue(given) = << >> THEN after = before
    ELSE \/ after = TheValue(given)
         \/ after \o << "/" >> = TheValue(given)

\* ... and to the time-to-live
DurationAdopted(given, before, after) ==
    IF IsSome(given) /\ TheValue(given) >= 0 THEN after = TheValue(given)
    ELSE after = before

C16_InitializeStep ==
    \A cfg \in Configs :
        initializeAdsSDK(cfg) =>
            /\ UrlAdopted(cfg.apiUrl, API_URL, API_URL')
            /\ UrlAdopted(cfg.intakeBaseUrl, INTAKE_BASE_URL, INTAKE_BASE_URL')
            /\ DurationAdopted(cfg.cacheDuration, CACHE_DURATION, CACHE_DURATION')
            /\ UNCHANGED << locals, kept, wrapped >>

\* whatever the state and the argument, the call goes through, and the
\* time-to-live is never negative
C16_InitializeNeverFails ==
    /\ \A cfg \in Configs : ENABLED initializeAdsSDK(cfg)
    /\ CACHE_DURATION >= 0

\* C16: initializeAdsSDK() never fails: a negative cacheDuration leaves the
\* previous (or default 3 600 000 ms) value, a non-negative one replaces it, a
\* URL without http:// or https:// is still adopted, and an omitted field
\* keeps its previous value.
C16_InitializeAdopts == []C16_InitializeNeverFails /\ [][C16_InitializeStep]_vars

\* a URL without scheme was adopted, and a later call that gave only a
\* cacheDuration replaced the time-to-live and kept both URLs
C16_Witness ==
    /\ API_URL = CustomApiUrl
    /\ INTAKE_BASE_URL = CustomIntakeBaseUrl
    /\ CACHE_DURATION = DefaultCacheDuration + 1

(***************************************************************************)
(* Single ads                                                              *)
(***************************************************************************)
Answered(c, fn) == outer[c].fn = fn /\ answer[c].status # "pending"

\* the positions of list ads that hold a record with the id
Holding(ads, id) == {i \in 1..Len(ads) : ads[i].id = id}

\* C17: getAdById(id) returns the first record, in list order, of the list
\* getAllAds() resolves to whose id equals the argument, and undefined when no
\* record has that id; it never rejects, in every cache state and under every
\* failure.
C17_GetAdByIdFindsFirst ==
    \A c \in Callers :
        /\ outer[c].fn = "getAdById" => answer[c].status # "rejected"
        /\ Answered(c, "getAdById") =>
              LET ads == result[c].value
                  hits == Holding(ads, outer[c].id)
              IN /\ result[c].status = "resolved"
                 /\ answer[c].status = "resolved"
                 /\ hits = {} => answer[c].value = None
                 /\ hits # {} =>
                       \E i \in hits :
                           /\ \A j \in hits : i <= j
                           /\ answer[c].value = Some(ads[i])

\* getAdById() answered with the first of two cached records of the same id
C17_Witness ==
    \E c \in Callers :
        /\ Answered(c, "getAdById") /\ path[c] = "stale"
        /\ Cardinality(Holding(result[c].value, outer[c].id)) = 2
        /\ answer[c] = Resolved(Some(AdApp))

\* getAdById() answered undefined over the fallback list of a failed fetch
\* whose payload read had thrown
C17_WitnessUndefined ==
    \E c \in Callers :
        /\ Answered(c, "getAdById") /\ FetchFailed(c) /\ rfault[c]
        /\ result[c] = Resolved(fallbackAds)
        /\ answer[c] = Resolved(None)

\* C18: getRandomAd() returns null exactly when the list getAllAds() resolves
\* to is empty, and otherwise a member of that list; it never rejects.
C18_GetRandomAdPicksMember ==
    \A c \in Callers :
        /\ outer[c].fn = "getRandomAd" => answer[c].status # "rejected"
        /\ Answered(c, "getRandomAd") =>
              LET ads == result[c].value
              IN /\ result[c].status = "resolved"
                 /\ answer[c].status = "resolved"
                 /\ answer[c].value = None <=> ads = << >>
                 /\ ads # << >> =>
                       \E i \in 1..Len(ads) : answer[c].value = Some(ads[i])

\* getRandomAd() answered with the last record of the fallback list
C18_Witness ==
    \E c \in Callers :
        /\ Answered(c, "getRandomAd") /\ FetchFailed(c)
        /\ answer[c] = Resolved(Some(fallbackAds[Len(fallbackAds)]))

\* getRandomAd() answered null over an empty cached list
C18_WitnessNull ==
    \E c \in Callers :
        /\ Answered(c, "getRandomAd") /\ path[c] = "fresh"
        /\ result[c] = Resolved(<< >>)
        /\ answer[c] = Resolved(None)

(***************************************************************************)
(* The transformer                                                         *)
(***************************************************************************)
\* the record the transformer is to make of service record s
Transformed(ad, s, base) ==
    /\ ad.id = s.id /\ ad.title = s.title /\ ad.tagline = s.tagline
    /\ ad.description = s.description /\ ad.ctaText = s.primaryCtaLabel
    /\ IF IsSome(colorMap(s.accent))
       THEN ad.accentColor = TheValue(colorMap(s.accent))
       ELSE ad.accentColor = "blue"
    /\ IF IsSome(iconMap(s.id))
       THEN ad.icon = TheValue(iconMap(s.id))
       ELSE ad.icon = "information-circle-outline"
    /\ ad.ctaUrl = base \o s.intakeUrl
    /\ IF IsSome(s.features)
       THEN ad.features = TheValue(s.features)
       ELSE ad.features = << >>

C19_MapStep ==
    \A c \in Callers :
        (pc[c] = "fetch" /\ pc'[c] # "fetch" /\ FetchOk(c)') =>
            LET body == TheValue(resp'[c])
                ads == freshAds'[c]
            IN /\ pc'[c] = "setPayload"
               /\ result'[c] = Pending
               /\ ~IsSome(body.services) => ads = << >>
               /\ IsSome(body.services) =>
                     /\ Len(ads) = Len(TheValue(body.services))
                     /\ \A i \in 1..Len(ads) :
                            Transformed(ads[i], TheValue(body.services)[i], INTAKE_BASE_URL)

C19_WitnessNoServices ==
    \E c \in Callers :
        /\ pc[c] = "setPayload" /\ FetchOk(c)
        /\ ~IsSome(TheValue(resp[c]).services)
        /\ freshAds[c] = << >>

(***************************************************************************)
(* Two callers                                                             *)
(***************************************************************************)
\* a getAllAds() call that found no payload
FoundAbsent(c) == op[c] = "getAllAds" /\ path[c] = "absent"

\* such a call fetches for itself, resolves to what its own response
\* determines and, unless a write throws, makes both writes of its persist
C20_OwnFetch ==
    \A c \in Callers :
        FoundAbsent(c) =>
            /\ nfetch[c] = 1 /\ fetchUrl[c] = Some(API_URL)
            /\ pc[c] \in {"setPayload", "setTimestamp"} => freshAds[c] = FetchedBy(c)
            /\ pc[c] = "done" =>
                  /\ IsSome(resp[c])
                  /\ result[c] = FirstEverResult(TheValue(resp[c]), INTAKE_BASE_URL)
                  /\ (FetchOk(c) /\ ~wfault[c]) => nwrites[c] = 2

\* once all of them have persisted, the store holds the list of one of them
C20_OneOfThem ==
    (\A c \in Callers : FoundAbsent(c) /\ pc[c] = "done" /\ FetchOk(c) /\ ~wfault[c]) =>
        \E c \in Callers : storedAds = Some(FetchedBy(c))

\* every payload write replaces what is stored by the writer's own list, so
\* the payload stored in the end is that of the persist that wrote last
C20_LastWriteWins ==
    \A c \in Callers :
        (op[c] = "getAllAds" /\ pc[c] = "setPayload" /\ pc'[c] = "setTimestamp") =>
            /\ getCachedAds(store'[CACHE_KEY], FALSE) = Some(freshAds[c])
            /\ storedAds' = Some(freshAds[c])

\* C20: two getAllAds() calls racing while the cache is Absent both fetch and
\* both persist; after both complete, the stored payload is from whichever
\* persist ran last, and each caller receives the list of its own fetch.
C20_RacingCallsBothPersist ==
    [](C20_OwnFetch /\ C20_OneOfThem) /\ [][C20_LastWriteWins]_vars

\* both callers read the store of the first run, fetched different lists and
\* made both writes; the store holds the list of caller 2, and caller 1 has
\* the list of its own fetch
C20_Witness ==
    /\ \A c \in Callers :
          /\ Done(c, "getAllAds") /\ seenBy[c] = "firstRun" /\ path[c] = "absent"
          /\ nwrites[c] = 2 /\ ~wfault[c]
    /\ Len(result[1].value) = 1 /\ Len(result[2].value) = 2
    /\ result[1].value = FetchedBy(1)
    /\ storedAds = Some(result[2].value)

(***************************************************************************)
(* The two keys                                                            *)
(***************************************************************************)
\* the step in which a getAllAds() call evaluates the timestamp
ReadsTimestamp(c) == pc[c] = "isCacheExpired" /\ pc'[c] # "isCacheExpired"

\* the payload read hands back a list exactly when a payload is stored, the
\* read does not throw and the text parses
C21_PayloadRead ==
    \A c \in Callers :
        (CanCall(c) /\ pc'[c] = "isCacheExpired") =>
            /\ (~IsSome(store[CACHE_KEY]) \/ rfault'[c]) => cachedAds'[c] = None
            /\ IsSome(cachedAds'[c]) => cachedAds'[c] = storedAds

\* a list with a missing or unreadable timestamp is served as Stale: it is
\* returned at once and one chain is started
C21_NoTimestampIsStale ==
    \A c \in Callers :
        (ReadsTimestamp(c) /\ IsSome(cachedAds[c])
           /\ (~IsSome(store[CACHE_TIMESTAMP_KEY]) \/ tfault'[c])) =>
            /\ path'[c] = "stale"
            /\ pc'[c] = "done"
            /\ result'[c] = Resolved(TheValue(cachedAds[c]))
            /\ nfetch'[c] = 1
            /\ BagCardinality(bg') = BagCardinality(bg) + 1
            /\ store' = store

\* no list means Absent, whatever the timestamp says
C21_NoPayloadIsAbsent ==
    \A c \in Callers :
        (ReadsTimestamp(c) /\ ~IsSome(cachedAds[c])) =>
            /\ path'[c] = "absent"
            /\ pc'[c] = "fetch"
            /\ result'[c] = Pending
            /\ nfetch'[c] = 1
            /\ bg' = bg
            /\ store' = store

\* with a list and a timestamp that reads, the age alone tells Fresh from Stale
C21_TimestampTellsFresh ==
    \A c \in Callers :
        (ReadsTimestamp(c) /\ IsSome(cachedAds[c])
           /\ IsSome(store[CACHE_TIMESTAMP_KEY]) /\ ~tfault'[c]) =>
            /\ path'[c] \in {"fresh", "stale"}
            /\ path'[c] = "fresh" <=>
                  now - parseInt(TheValue(store[CACHE_TIMESTAMP_KEY])) <= CACHE_DURATION

\* C21: getAllAds() chooses its path from the payload alone and uses the
\* timestamp only to tell Fresh from Stale: a stored payload with a missing
\* timestamp or a failed timestamp read is Stale (the payload is returned and
\* one background fetch is issued); a missing or unreadable payload is Absent
\* with an awaited fetch, whatever the stored timestamp is.
C21_PathFromPayloadAlone ==
    [][C21_PayloadRead /\ C21_NoTimestampIsStale /\ C21_NoPayloadIsAbsent
         /\ C21_TimestampTellsFresh]_vars

\* a stored list without any timestamp was served as Stale
C21_Witness ==
    \E c \in Callers :
        /\ Done(c, "getAllAds") /\ path[c] = "stale"
        /\ IsSome(seen[c]) /\ ttl[c] = "none" /\ ~tfault[c]
        /\ Chains("fetch") # {}

\* a stored list whose timestamp read threw was served as Stale
C21_WitnessReadFailed ==
    \E c \in Callers :
        /\ Done(c, "getAllAds") /\ path[c] = "stale"
        /\ ttl[c] = "fresh" /\ tfault[c]

\* a call awaits its fetch over a recent timestamp without payload
C21_WitnessAbsent ==
    \E c \in Callers :
        /\ op[c] = "getAllAds" /\ pc[c] = "fetch" /\ path[c] = "absent"
        /\ ~IsSome(seen[c]) /\ ttl[c] = "fresh"

\* the steps of the persist of caller c
WritesPayload(c) == pc[c] = "setPayload" /\ pc'[c] # "setPayload"
WritesTimestamp(c) == pc[c] = "setTimestamp" /\ pc'[c] # "setTimestamp"

\* what the store would be classified as by a call reading it now
Classified(items, time, duration) ==
    getAllAds_branch(getCachedAds(items[CACHE_KEY], FALSE),
                     isCacheExpired(items[CACHE_TIMESTAMP_KEY], FALSE, time, duration))

\* the payload write: when it throws, both keys are as before and the call
\* returns without a timestamp write; otherwise the new payload stands under
\* the old or missing timestamp
C22_PayloadStep ==
    \A c \in Callers :
        WritesPayload(c) =>
            /\ nwrites[c] = 0
            /\ wfault'[c] => (store' = store /\ pc'[c] = "done" /\ nwrites'[c] = 1)
            /\ ~wfault'[c] =>
                  /\ pc'[c] = "setTimestamp"
                  /\ getCachedAds(store'[CACHE_KEY], FALSE) = Some(freshAds[c])
                  /\ store'[CACHE_TIMESTAMP_KEY] = store[CACHE_TIMESTAMP_KEY]

\* the timestamp write comes second, over the payload the persist wrote:
\* when it throws, the new payload keeps the old or missing timestamp
C22_TimestampStep ==
    \A c \in Callers :
        WritesTimestamp(c) =>
            /\ nwrites[c] = 1 /\ ~wfault[c]
            /\ getCachedAds(store[CACHE_KEY], FALSE) = Some(freshAds[c])
            /\ store'[CACHE_KEY] = store[CACHE_KEY]
            /\ wfault'[c] => store' = store
            /\ ~wfault'[c] => store'[CACHE_TIMESTAMP_KEY] = Some(toString(now))

\* no step of a persist makes an entry Fresh whose payload it did not write
C22_NeverFreshensOld ==
    \A c \in Callers :
        (WritesPayload(c) \/ WritesTimestamp(c)) =>
            \/ store' = store
            \/ getCachedAds(store'[CACHE_KEY], FALSE) = Some(freshAds[c])

\* a timestamp is never awaiting its write after a payload write that threw
C22_PayloadFirst ==
    \A c \in Callers :
        pc[c] = "setTimestamp" =>
            ~wfault[c] /\ nwrites[c] = 1 /\ storedAds = Some(freshAds[c])

\* C22: a persist writes the payload first and the timestamp second, and the
\* timestamp only if the payload write succeeded: a failed payload write
\* leaves both keys unchanged, a failed timestamp write leaves the new payload
\* with the old or missing timestamp; with no concurrent operation a persist
\* never leaves an old payload under a new timestamp.
C22_PersistOrder ==
    []C22_PayloadFirst
      /\ [][C22_PayloadStep /\ C22_TimestampStep /\ C22_NeverFreshensOld]_vars

\* a refreshAds() whose timestamp write threw left its two-record list under
\* the timestamp of the earlier session, which by now makes it Stale
C22_Witness ==
    \E c \in Callers :
        /\ Done(c, "refreshAds") /\ wfault[c] /\ nwrites[c] = 2
        /\ Len(freshAds[c]) = 2 /\ storedAds = Some(freshAds[c])
        /\ storedAt = Some(0) /\ now > DefaultCacheDuration
        /\ Classified(store, now, CACHE_DURATION) = "stale"

\* a refreshAds() whose payload write threw left the earlier entry as it was
C22_WitnessPayloadFailed ==
    \E c \in Callers :
        /\ Done(c, "refreshAds") /\ wfault[c] /\ nwrites[c] = 1
        /\ Len(freshAds[c]) = 1 /\ storedAds = Some(<< AdApp, AdAppRelaunch >>)
        /\ storedAt = Some(0)

(***************************************************************************)
(* clearAdsCache against refreshes in flight                               *)
(***************************************************************************)
\* caller c has had its clearAdsCache() resolved and has not called since
Cleared(c) == Done(c, "clearAdsCache") /\ BothRemoved(c)

\* the steps of a clearAdsCache() call
Removes(c) ==
    \/ CanCall(c) /\ pc'[c] = "removeTimestamp"
    \/ CanCall(c) /\ op[c] # "clearAdsCache" /\ op'[c] = "clearAdsCache"
    \/ pc[c] = "removeTimestamp" /\ pc'[c] = "done"

\* no step of clearAdsCache() ends or alters a chain
C23_NoCancel == \A c \in Callers : Removes(c) => bg' = bg

\* after the call has resolved, a chain writes as if nothing had happened
C23_NoFence ==
    \A c \in Callers :
        Cleared(c) =>
            /\ \A t \in Chains("setPayload") :
                  bg' = (bg (-) SetToBag({t})) (+) Chain("setTimestamp", t.ads) =>
                      getCachedAds(store'[CACHE_KEY], FALSE) = Some(t.ads)
            /\ (bgEnded' = "persisted" /\ BagCardinality(bg') < BagCardinality(bg)) =>
                  store'[CACHE_TIMESTAMP_KEY] = Some(toString(now))

\* a getAllAds() called next reads the entry the chain has persisted
C23_NextRead ==
    \A c \in Callers :
        (Cleared(c) /\ storedBy = "background"
           /\ op'[c] = "getAllAds" /\ pc'[c] = "isCacheExpired" /\ ~rfault'[c]) =>
            /\ IsSome(cachedAds'[c])
            /\ cachedAds'[c] = storedAds
            /\ seenBy'[c] = "background"

\* once a chain has persisted after the call resolved, the entry is whole again
C23_EntryAgain ==
    \A c \in Callers :
        (Cleared(c) /\ storedBy = "background") =>
            /\ IsSome(store[CACHE_KEY]) /\ IsSome(store[CACHE_TIMESTAMP_KEY])
            /\ IsSome(storedAds)

\* ... and a call that reads it within the time-to-live returns its list
\* from the cache, without a fetch
C23_ServedFresh ==
    \A c \in Callers :
        (op[c] = "getAllAds" /\ seenBy[c] = "background" /\ SawFresh(c)
           /\ pc[c] # "isCacheExpired") =>
            /\ pc[c] = "done" /\ path[c] = "fresh"
            /\ nfetch[c] = 0 /\ ~IsSome(resp[c])
            /\ result[c] = Resolved(TheValue(seen[c]))

\* C23: clearAdsCache() does not cancel or fence fetches in flight: when a
\* background refresh persists after clearAdsCache() has completed, the cache
\* entry exists again and a following getAllAds() takes the Fresh path and
\* returns that list without a fetch; when the persist interleaves with the
\* two removals the store can be left with one of the two keys only.
C23_ClearDoesNotFence ==
    [](C23_EntryAgain /\ C23_ServedFresh)
      /\ [][C23_NoCancel /\ C23_NoFence /\ C23_NextRead]_vars

\* clearAdsCache() has resolved and the store holds a non-empty Fresh entry
\* that a chain persisted afterwards
C23_Witness ==
    \E c \in Callers :
        /\ Cleared(c) /\ storedBy = "background" /\ bgEnded = "persisted"
        /\ Len(TheValue(storedAds)) > 0
        /\ Classified(store, now, CACHE_DURATION) = "fresh"

\* a chain made both of its writes while clearAdsCache() made its removals,
\* and the store is left with the timestamp only
C23_WitnessTimestampOnly ==
    \E c \in Callers :
        /\ Cleared(c) /\ bgEnded = "persisted" /\ bg = EmptyBag
        /\ ~IsSome(store[CACHE_KEY]) /\ IsSome(store[CACHE_TIMESTAMP_KEY])

\* the same, with the payload only
C23_WitnessPayloadOnly ==
    \E c \in Callers :
        /\ Cleared(c) /\ bgEnded = "persisted" /\ bg = EmptyBag
        /\ IsSome(store[CACHE_KEY]) /\ ~IsSome(store[CACHE_TIMESTAMP_KEY])

(***************************************************************************)
(* Refreshes in flight                                                     *)
(***************************************************************************)
FetchInFlight == [pc |-> "fetch", ads |-> << >>]

\* a call that finds the entry Stale returns the list it read and adds a
\* chain of its own to whatever chains are in flight
C24_OwnChain ==
    \A c \in Callers :
        (ReadsTimestamp(c) /\ path'[c] = "stale") =>
            /\ result'[c] = Resolved(TheValue(cachedAds[c]))
            /\ nfetch'[c] = 1
            /\ bg' = bg (+) SetToBag({FetchInFlight})
            /\ BagCardinality(bg') = BagCardinality(bg) + 1
            /\ store' = store

\* while no chain has written, every such call has returned the list that
\* is still stored
C24_SameList ==
    \A c \in Callers :
        (Done(c, "getAllAds") /\ path[c] = "stale" /\ storedBy = seenBy[c]
           /\ storedAds = seen[c] /\ ~rfault[c]) =>
            result[c] = Resolved(TheValue(storedAds))

\* each chain writes its own list over whatever is stored, and then the
\* clock over whatever timestamp is stored
C24_Overwrites ==
    /\ \A t \in Chains("setPayload") :
          (bg' = (bg (-) SetToBag({t})) (+) Chain("setTimestamp", t.ads)) =>
              /\ getCachedAds(store'[CACHE_KEY], FALSE) = Some(t.ads)
              /\ store'[CACHE_TIMESTAMP_KEY] = store[CACHE_TIMESTAMP_KEY]
    /\ (bgEnded' = "persisted" /\ BagCardinality(bg') < BagCardinality(bg)) =>
          /\ store'[CACHE_TIMESTAMP_KEY] = Some(toString(now))
          /\ store'[CACHE_KEY] = store[CACHE_KEY]

\* C24: background refreshes are not deduplicated: each getAllAds() call that
\* reads the store while the entry is Stale, before an earlier background
\* persist has completed, returns the same stale list and starts its own
\* background fetch, so N fetches are in flight, and each successful one
\* overwrites payload and timestamp in completion order.
C24_NotDeduplicated == []C24_SameList /\ [][C24_OwnChain /\ C24_Overwrites]_vars

\* two calls over the same Stale entry have left two fetches in flight, and
\* the second has returned the list of the earlier session
C24_Witness ==
    \E c \in Callers :
        /\ Done(c, "getAllAds") /\ path[c] = "stale"
        /\ CopiesIn(FetchInFlight, bg) = 2
        /\ result[c] = Resolved(<< AdApp, AdAppRelaunch >>)
        /\ storedAds = Some(<< AdApp, AdAppRelaunch >>) /\ storedAt = Some(0)

\* one chain has persisted its list and another is about to write a
\* different one over it
C24_WitnessOverwrite ==
    \E t \in Chains("setPayload") :
        /\ storedBy = "background" /\ bgEnded = "persisted"
        /\ IsSome(storedAds) /\ TheValue(storedAds) # t.ads
        /\ Len(t.ads) > 0

====
